---- MODULE Spec2Model ----
(***************************************************************************)
(* yFinData: reconciliation of a local SQLite store (tables stocks and     *)
(* national_debt) against a market-data provider, driven by a TOML list    *)
(* of tracked entries.                                                     *)
(*                                                                         *)
(* A datetime is modelled by its day ordinal (day 1 is 2022-12-31), a date *)
(* string "YYYY-MM-DD" by the tuple <<year, month, day>>.  Floats are      *)
(* integers; the P/E ratio is a string so that float("nan") and SQL NULL   *)
(* are values of the same kind as a number.  A table is a bag of rows (the *)
(* AUTOINCREMENT id is what tells two equal rows apart, the bag counts     *)
(* them).                                                                  *)
(***************************************************************************)
EXTENDS Integers, Sequences, FiniteSets, Bags, TLC

\* ---------------------------------------------------------------- bounds
MaxDay == 3
MaxBars == 2
MaxRows == 2
GapDays == 5

Days == 1..MaxDay

\* -------------------------------------------------------------- calendar
\* datetime.strftime("%Y-%m-%d") on the datetime with day ordinal n
strftime(n) ==
    IF n <= 1 THEN <<2022, 12, 30 + n>> ELSE <<2023, 1, n - 1>>

\* datetime.strptime(s, "%Y-%m-%d"), as a day ordinal
strptime(s) ==
    IF s[1] = 2022 THEN s[3] - 30 ELSE s[3] + 1

\* d + timedelta(days=k)
timedelta(d, k) == d + k

\* comparison of two date strings as SQLite compares TEXT (left to right)
TextLess(a, b) ==
    \/ a[1] < b[1]
    \/ a[1] = b[1] /\ a[2] < b[2]
    \/ a[1] = b[1] /\ a[2] = b[2] /\ a[3] < b[3]

\* the sentinel of cursor.fetchone()[0] being None
None == <<>>

\* ------------------------------------------------------------ the tables
KeyOf(table) == IF table = "stocks" THEN "symbol" ELSE "nation"

\* rows of table T with key k
RowsOf(T, table, k) == {r \in DOMAIN T : r[KeyOf(table)] = k}

\* SELECT date FROM table WHERE key = k
DatesOf(T, table, k) == {r.date : r \in RowsOf(T, table, k)}

\* SELECT MAX(date) FROM table WHERE key = k
SelectMaxDate(T, table, k) ==
    LET ds == DatesOf(T, table, k)
    IN  IF ds = {} THEN None
        ELSE CHOOSE m \in ds : \A d \in ds : d = m \/ TextLess(d, m)

\* DELETE FROM table WHERE date = d: the key left out of the condition
DeleteRow_AnyKey(T, table, k, d) ==
    LET keep == {r \in DOMAIN T : r.date # d}
    IN  [r \in keep |-> T[r]]

\* DELETE FROM table WHERE key = k AND date = d
DeleteRow(T, table, k, d) ==
    LET keep == {r \in DOMAIN T : ~(r[KeyOf(table)] = k /\ r.date = d)}
    IN  [r \in keep |-> T[r]]

\* a plain INSERT into a table without the UNIQUE(key, date) constraint
InsertOrReplace_NoConflict(T, table, row) == T (+) SetToBag({row})

\* INSERT OR REPLACE INTO table: UNIQUE(key, date) removes the conflicting
\* rows, then the new row is inserted
InsertOrReplace(T, table, row) ==
    DeleteRow(T, table, row[KeyOf(table)], row.date) (+) SetToBag({row})


\* row-at-a-time loop "for ... in rows: cursor.execute(INSERT OR REPLACE ...)",
\* rows given as a function from day ordinal to row, visited in date order
RECURSIVE UpsertLoop(_, _, _)
UpsertLoop(T, table, rows) ==
    IF DOMAIN rows = {} THEN T
    ELSE LET d == CHOOSE x \in DOMAIN rows : \A y \in DOMAIN rows : x <= y
             rest == [y \in DOMAIN rows \ {d} |-> rows[y]]
         IN  UpsertLoop(InsertOrReplace(T, table, rows[d]), table, rest)

\* -------------------------------------------------------------- provider
\* TREASURY_SYMBOLS[nation]: the lookup without a default
TREASURY_SYMBOLS_Strict(nation) ==
    IF nation \in {"US", "USA", "United States"} THEN "^TNX" ELSE "KeyError"

\* TREASURY_SYMBOLS.get(nation, "^TNX")
TREASURY_SYMBOLS(nation) ==
    IF nation \in {"US", "USA", "United States"} THEN "^TNX" ELSE "^TNX"

\* what the provider may answer for one ticker: the trailingPE entry of
\* ticker.info (absent, not a number, a number) and a price level
Quotes ==
    { [px |-> 1, trailingPE |-> "30.1"],
      [px |-> 2, trailingPE |-> "None"],
      [px |-> 2, trailingPE |-> "N/A"] }

Numbers == {"30.1", "25.5"}

\* ticker.history(start, end): one row per returned day
History(ds, q) ==
    [d \in ds |-> [Open |-> 10 * q.px + d, Close |-> 10 * q.px + d + 1,
                   Low |-> 10 * q.px + d - 1, High |-> 10 * q.px + d + 2,
                   Volume |-> 100 * q.px + d]]

\* the day sets a provider call may return
Series == {ds \in SUBSET Days : Cardinality(ds) <= MaxBars}

\* pe_ratio with a number put where the provider gave none
PeRatio_Default(info) ==
    IF info = "None" \/ info \notin Numbers THEN "0.0" ELSE info

\* pe_ratio of capture_stock
PeRatio(info) ==
    IF info = "None" \/ info \notin Numbers THEN "nan" ELSE info

\* capture_stock(name, start), given what the provider answered
capture_stock(name, hist, info) ==
    [name |-> name,
     data |-> [d \in DOMAIN hist |->
                 [open |-> hist[d].Open, close |-> hist[d].Close,
                  low |-> hist[d].Low, high |-> hist[d].High,
                  volume |-> hist[d].Volume, pe |-> PeRatio(info)]]]

\* capture_national_debt(nation, start), given what the provider answered
capture_national_debt(nation, hist) ==
    [name |-> nation, data |-> [d \in DOMAIN hist |-> hist[d].Close]]

\* the tuple bound to INSERT OR REPLACE INTO stocks
StockRow(name, d, price) ==
    [symbol |-> name, date |-> strftime(d), open |-> price.open,
     close |-> price.close, high |-> price.high, low |-> price.low,
     volume |-> price.volume,
     pe |-> IF price.pe = "nan" THEN "NULL" ELSE price.pe]

\* the tuple bound to INSERT OR REPLACE INTO national_debt
DebtRow(name, d, yield) ==
    [nation |-> name, date |-> strftime(d), yield |-> yield]

\* the rows one fetched series is written as
RowsToInsert(table, name, data) ==
    [d \in DOMAIN data |->
        IF table = "stocks" THEN StockRow(name, d, data[d])
        ELSE DebtRow(name, d, data[d])]

\* ---------------------------------------------------------------- config
DEFAULT_TOML_CONFIG ==
    [stocks |-> << [name |-> "AAPL", start_date |-> <<2023, 1, 1>>,
                    end_date |-> <<2023, 12, 31>>] >>,
     national_debt |-> << [name |-> "US", start_date |-> <<2023, 1, 1>>,
                           end_date |-> <<2023, 12, 31>>] >>]

\* rows a test or an earlier session has committed to the store
SeedStock(k, d) ==
    [symbol |-> k, date |-> strftime(d), open |-> 150, close |-> 152,
     high |-> 153, low |-> 149, volume |-> 1000, pe |-> "25.5"]

SeedDebt(k, d) == [nation |-> k, date |-> strftime(d), yield |-> 3]

Slots == {"AAPL", "US"} \X Days

SeedStores ==
    { [stocks |-> SetToBag({SeedStock(s[1], s[2]) : s \in {x \in S : x[1] = "AAPL"}}),
       national_debt |-> SetToBag({SeedDebt(s[1], s[2]) : s \in {x \in S : x[1] = "US"}})]
      : S \in {X \in SUBSET Slots : Cardinality(X) <= MaxRows} }

\* ----------------------------------------------------------------- state
VARIABLES
    toml,        \* the tracked-symbol file
    db,          \* the committed content of the database file
    conn,        \* the open connection: what its statements see
    cmd,         \* the operation running
    pc,          \* where it is
    config,      \* toml.load(f) of the running operation
    phase,       \* the list being iterated: "stocks" or "national_debt"
    idx,         \* index of the entry being processed
    entry,       \* the loop variable stock_entry / debt_entry
    stock_data,  \* what the capture function returned for the entry
    exit_code,   \* "run", "0" or "1"
    calls,       \* provider calls made by the running operation
    written,     \* for each (key, date) the operation upserted, the last row
    pre,         \* the tables as the operation found them
    after_update,   \* the operation follows an update that ended without error
    missing_ranges, \* what gap detection last returned, and for which key
    fs,          \* the working directory: config/ and config/config.toml
    argv,        \* the arguments of the add command running
    pre_toml,    \* the tracked-symbol file as the operation found it
    shadow,      \* the run replayed with every end_date taken away
    procs,       \* two processes running capture_data side by side
    db_lock      \* the process holding the write lock of the database file

vars == <<toml, db, conn, cmd, pc, config, phase, idx, entry, stock_data,
          exit_code, calls, written, pre, after_update, missing_ranges,
          fs, argv, pre_toml, shadow, procs, db_lock>>

cliVars == <<fs, argv, pre_toml>>

concVars == <<procs, db_lock>>

Closed == [open |-> FALSE, stocks |-> EmptyBag, national_debt |-> EmptyBag]

NoEntry == [name |-> "", start_date |-> None, end_date |-> None]

NoData == [name |-> "", data |-> <<>>]

NoRanges == [table |-> "", key |-> "", ranges |-> <<>>]

NoArgs == [stock |-> "", start_date |-> None]

NoShadow == [stocks |-> EmptyBag, national_debt |-> EmptyBag, data |-> <<>>,
             calls |-> <<>>]

NoProc == [pc |-> "idle", stocks |-> EmptyBag, national_debt |-> EmptyBag,
           wrote |-> {}]

\* config/config.toml as the config command leaves it with both paths set
Configured == [config_dir |-> TRUE, exists |-> TRUE, paths |-> {"toml", "db"}]

InitRun ==
    /\ conn = Closed
    /\ cmd = "none"
    /\ pc = "idle"
    /\ config = [stocks |-> <<>>, national_debt |-> <<>>]
    /\ phase = "stocks"
    /\ idx = 0
    /\ entry = NoEntry
    /\ stock_data = NoData
    /\ exit_code = "0"
    /\ calls = <<>>
    /\ written = {}
    /\ pre = db
    /\ after_update = FALSE
    /\ missing_ranges = NoRanges
    /\ argv = NoArgs
    /\ pre_toml = toml
    /\ shadow = NoShadow
    /\ procs = [p \in {1, 2} |-> NoProc]
    /\ db_lock = 0

InitRest ==
    /\ toml = DEFAULT_TOML_CONFIG
    /\ fs = Configured
    /\ InitRun

Init ==
    /\ db \in SeedStores
    /\ InitRest


\* ------------------------------------------------------------- iteration
\* the loops the other way round: national_debt first, then stocks
Advance_DebtFirst(cfg, ph, i) ==
    IF ph = "stocks" /\ i = 0 /\ Len(cfg.national_debt) > 0
    THEN [phase |-> "national_debt", idx |-> 1, done |-> FALSE]
    ELSE IF ph = "national_debt" /\ i < Len(cfg.national_debt)
    THEN [phase |-> "national_debt", idx |-> i + 1, done |-> FALSE]
    ELSE IF ph = "national_debt" /\ Len(cfg.stocks) > 0
    THEN [phase |-> "stocks", idx |-> 1, done |-> FALSE]
    ELSE IF ph = "stocks" /\ i < Len(cfg.stocks)
              /\ (i > 0 \/ Len(cfg.national_debt) = 0)
    THEN [phase |-> "stocks", idx |-> i + 1, done |-> FALSE]
    ELSE [phase |-> ph, idx |-> i, done |-> TRUE]

\* a loop that never leaves its entry
Advance_Again(cfg, ph, i) ==
    IF ph = "stocks" /\ i = 0 /\ Len(cfg.stocks) > 0
    THEN [phase |-> "stocks", idx |-> 1, done |-> FALSE]
    ELSE [phase |-> ph, idx |-> i, done |-> i = 0]

\* the position after entry i of list ph: "for stock_entry in
\* config['stocks']", then "for debt_entry in config['national_debt']"
Advance(cfg, ph, i) ==
    IF ph = "stocks" /\ i < Len(cfg.stocks)
    THEN [phase |-> "stocks", idx |-> i + 1, done |-> FALSE]
    ELSE IF ph = "stocks" /\ Len(cfg.national_debt) > 0
    THEN [phase |-> "national_debt", idx |-> 1, done |-> FALSE]
    ELSE IF ph = "national_debt" /\ i < Len(cfg.national_debt)
    THEN [phase |-> "national_debt", idx |-> i + 1, done |-> FALSE]
    ELSE [phase |-> ph, idx |-> i, done |-> TRUE]

\* bind the loop variable to the next entry, or leave the loops
MoveTo(cfg, c, pos) ==
    /\ phase' = pos.phase
    /\ idx' = pos.idx
    /\ entry' = IF pos.done THEN NoEntry ELSE cfg[pos.phase][pos.idx]
    /\ pc' = IF pos.done THEN "close"
             ELSE IF c = "refresh" THEN "pre" ELSE "fetch"

\* the last row upserted for each (key, date)
Record(W, table, rows) ==
    LET new == {[table |-> table, row |-> rows[d]] : d \in DOMAIN rows}
        hit(w) == \E n \in new : /\ n.table = w.table
                                 /\ n.row[KeyOf(table)] = w.row[KeyOf(w.table)]
                                 /\ n.row.date = w.row.date
    IN  {w \in W : ~hit(w)} \cup new

\* ---------------------------------------------------------- command line
\* str.upper() on the names in use
Upper(s) == IF s = "aapl" THEN "AAPL" ELSE IF s = "msft" THEN "MSFT" ELSE s

\* datetime.now(), as a day ordinal
Today == MaxDay

\* datetime.strptime(s, "%Y-%m-%d") does not raise ValueError
ValidDate(s) == s[2] \in 1..12 /\ s[3] \in 1..31

\* get_config_path(): Path("config").mkdir(exist_ok=True)
get_config_path(f) == [f EXCEPT !.config_dir = TRUE]

\* the three tests after get_config_path(): config_path.exists(),
\* paths.get("toml"), paths.get("db")
SettingsError(f) ==
    \/ ~f.exists
    \/ "toml" \notin f.paths
    \/ "db" \notin f.paths

\* ------------------------------------------------------------ operations
\* capture_data / update_missing_data / update_data up to the first entry:
\* sqlite3.connect(db_file), toml.load(f)
StartCommand(c) ==
    /\ pc \in {"idle", "exit"}
    /\ c \in {"download", "update"} => ~SettingsError(fs)
    /\ cmd' = c
    /\ conn' = [open |-> TRUE, stocks |-> db.stocks,
                national_debt |-> db.national_debt]
    /\ config' = toml
    /\ MoveTo(toml, c, Advance(toml, "stocks", 0))
    /\ stock_data' = NoData
    /\ exit_code' = "run"
    /\ calls' = <<>>
    /\ written' = {}
    /\ pre' = db
    /\ after_update' = (pc = "exit" /\ cmd = "update" /\ exit_code = "0")
    /\ shadow' = [NoShadow EXCEPT !.stocks = db.stocks,
                                  !.national_debt = db.national_debt]
    /\ argv' = NoArgs
    /\ pre_toml' = toml
    /\ UNCHANGED <<toml, db, missing_ranges, fs, concVars>>

\* an entry as it reads when the file gives it no end_date
NoEnd(e) == [e EXCEPT !.end_date = None]

\* the replay of the preprocess
ShadowPreprocess ==
    LET latest_date_str == SelectMaxDate(shadow[phase], phase, entry.name)
    IN  IF latest_date_str # None
        THEN [shadow EXCEPT ![phase] =
                DeleteRow(@, phase, entry.name, latest_date_str)]
        ELSE shadow

\* the preprocess deleting the latest row but leaving start_date as configured
UpdatePreprocess_KeepStart ==
    /\ pc = "pre"
    /\ cmd = "refresh"
    /\ LET latest_date_str == SelectMaxDate(conn[phase], phase, entry.name)
       IN  IF latest_date_str # None
           THEN conn' = [conn EXCEPT ![phase] =
                           DeleteRow(@, phase, entry.name, latest_date_str)]
           ELSE UNCHANGED conn
    /\ shadow' = ShadowPreprocess
    /\ pc' = "fetch"
    /\ UNCHANGED <<toml, db, cmd, config, phase, idx, entry, stock_data,
                   exit_code, calls, written, pre, after_update, missing_ranges, cliVars, concVars>>

\* the preprocess deleting every row of the key
UpdatePreprocess_DeleteAll ==
    /\ pc = "pre"
    /\ cmd = "refresh"
    /\ LET latest_date_str == SelectMaxDate(conn[phase], phase, entry.name)
           others == [r \in {x \in DOMAIN conn[phase] :
                               x[KeyOf(phase)] # entry.name}
                        |-> conn[phase][r]]
       IN  IF latest_date_str # None
           THEN /\ conn' = [conn EXCEPT ![phase] = others]
                /\ entry' = [entry EXCEPT !.start_date = latest_date_str]
           ELSE UNCHANGED <<conn, entry>>
    /\ shadow' = ShadowPreprocess
    /\ pc' = "fetch"
    /\ UNCHANGED <<toml, db, cmd, config, phase, idx, stock_data, exit_code,
                   calls, written, pre, after_update, missing_ranges, cliVars,
                   concVars>>

\* _update_stock_preprocess / _update_debt_preprocess
UpdatePreprocess ==
    /\ pc = "pre"
    /\ cmd = "refresh"
    /\ LET latest_date_str == SelectMaxDate(conn[phase], phase, entry.name)
       IN  IF latest_date_str # None
           THEN /\ conn' = [conn EXCEPT ![phase] =
                              DeleteRow(@, phase, entry.name, latest_date_str)]
                /\ entry' = [entry EXCEPT !.start_date = latest_date_str]
           ELSE UNCHANGED <<conn, entry>>
    /\ shadow' = ShadowPreprocess
    /\ pc' = "fetch"
    /\ UNCHANGED <<toml, db, cmd, config, phase, idx, stock_data, exit_code,
                   calls, written, pre, after_update, missing_ranges, cliVars, concVars>>

\* the ticker the provider is asked for
Ticker(ph, name) == IF ph = "stocks" THEN name ELSE TREASURY_SYMBOLS(name)

\* what the capture function returns when the provider answers (ds, q)
Captured(ph, name, ds, q) ==
    IF ph = "stocks" THEN capture_stock(name, History(ds, q), q.trailingPE)
    ELSE capture_national_debt(name, History(ds, q))

\* the number ticker.info gave a stock call as trailingPE, "" when it gave
\* none or something that is no number
InfoOf(ph, q) ==
    IF ph = "stocks" /\ q.trailingPE \in Numbers THEN q.trailingPE ELSE ""

\* the capture call with the end of the request taken from the entry
capture_func_UntilEnd(ph, e, ds, q) ==
    Captured(ph, e.name,
             {d \in ds : e.end_date = None \/ ~TextLess(e.end_date, strftime(d))},
             q)

\* capture_func(name, start_date) for the entry e: of the entry, the call
\* is given the name (and the start); the request ends at datetime.now()
capture_func(ph, e, ds, q) == Captured(ph, e.name, ds, q)

\* the replay of a call: the same request from the entry without end_date
ShadowCall(start, ds, q) ==
    LET got == capture_func(phase, NoEnd(entry), ds, q)
    IN  [shadow EXCEPT
           !.data = got.data,
           !.calls = Append(@, [table |-> phase, name |-> entry.name,
                                symbol |-> Ticker(phase, entry.name),
                                start |-> strftime(start), ok |-> TRUE,
                                days |-> DOMAIN got.data,
                                info |-> InfoOf(phase, q)])]

\* the provider call upserting each bar as it arrives
ProviderCall_Streaming(start, ds, q) ==
    /\ stock_data' = capture_func(phase, entry, ds, q)
    /\ calls' = Append(calls, [table |-> phase, name |-> entry.name,
                               symbol |-> Ticker(phase, entry.name),
                               start |-> strftime(start), ok |-> TRUE,
                               days |-> DOMAIN stock_data'.data,
                               info |-> InfoOf(phase, q)])
    /\ shadow' = ShadowCall(start, ds, q)
    /\ conn' = [conn EXCEPT ![phase] =
                  UpsertLoop(@, phase,
                             RowsToInsert(phase, entry.name, stock_data'.data))]
    /\ pc' = "merge"
    /\ UNCHANGED <<toml, db, cmd, config, phase, idx, entry, exit_code,
                   written, pre, after_update, missing_ranges, cliVars,
                   concVars>>

\* the provider call of one entry, answered
ProviderCall(start, ds, q) ==
    /\ stock_data' = capture_func(phase, entry, ds, q)
    /\ calls' = Append(calls, [table |-> phase, name |-> entry.name,
                               symbol |-> Ticker(phase, entry.name),
                               start |-> strftime(start), ok |-> TRUE,
                               days |-> DOMAIN stock_data'.data,
                               info |-> InfoOf(phase, q)])
    /\ shadow' = ShadowCall(start, ds, q)
    /\ pc' = "merge"
    /\ UNCHANGED <<toml, db, conn, cmd, config, phase, idx, entry, exit_code,
                   written, pre, after_update, missing_ranges, cliVars, concVars>>

\* the exception caught per entry, the loop going on with the next entry
ProviderRaise_Swallowed(start) ==
    /\ calls' = Append(calls, [table |-> phase, name |-> entry.name,
                               symbol |-> Ticker(phase, entry.name),
                               start |-> strftime(start), ok |-> FALSE,
                               days |-> {}, info |-> ""])
    /\ MoveTo(config, cmd, Advance(config, phase, idx))
    /\ UNCHANGED <<toml, db, conn, cmd, config, stock_data, exit_code, written,
                   pre, after_update, missing_ranges, cliVars, shadow,
                   concVars>>

\* the failure putting the tracked-symbol file back as the command found it
ProviderRaise_RestoresConfig(start) ==
    /\ calls' = Append(calls, [table |-> phase, name |-> entry.name,
                               symbol |-> Ticker(phase, entry.name),
                               start |-> strftime(start), ok |-> FALSE,
                               days |-> {}, info |-> ""])
    /\ conn' = Closed
    /\ pc' = "exit"
    /\ exit_code' = "1"
    /\ stock_data' = NoData
    /\ shadow' = NoShadow
    /\ toml' = pre_toml
    /\ UNCHANGED <<db, cmd, config, phase, idx, entry, written, pre,
                   after_update, missing_ranges, cliVars, concVars>>

\* the provider call of one entry raises: the exception leaves the
\* operation, the connection is dropped with its transaction open
ProviderRaise(start) ==
    /\ calls' = Append(calls, [table |-> phase, name |-> entry.name,
                               symbol |-> Ticker(phase, entry.name),
                               start |-> strftime(start), ok |-> FALSE,
                               days |-> {}, info |-> ""])
    /\ conn' = Closed
    /\ pc' = "exit"
    /\ exit_code' = "1"
    /\ stock_data' = NoData
    /\ shadow' = NoShadow
    /\ UNCHANGED <<toml, db, cmd, config, phase, idx, entry, written, pre,
                   after_update, missing_ranges, cliVars, concVars>>

\* _process_stock_data / _process_national_debt_data, lines up to the
\* capture_func call
Capture ==
    /\ pc = "fetch"
    /\ cmd \in {"download", "add", "refresh"}
    /\ LET start_date == strptime(entry.start_date)
       IN  \E ds \in Series, q \in Quotes : ProviderCall(start_date, ds, q)

CaptureFails ==
    /\ pc = "fetch"
    /\ cmd \in {"download", "add", "refresh"}
    /\ ProviderRaise(strptime(entry.start_date))

\* the update asking from the configured start_date, as full capture does
UpdateCapture_FromConfigStart ==
    /\ pc = "fetch"
    /\ cmd = "update"
    /\ SelectMaxDate(conn[phase], phase, entry.name) # None
    /\ \E ds \in Series, q \in Quotes :
         ProviderCall(strptime(entry.start_date), ds, q)

\* the update deleting the latest row and asking from its date, as the
\* destructive refresh does
UpdateCapture_Destructive ==
    /\ pc = "fetch"
    /\ cmd = "update"
    /\ LET latest_date_str == SelectMaxDate(conn[phase], phase, entry.name)
       IN  /\ latest_date_str # None
           /\ conn' = [conn EXCEPT ![phase] =
                         DeleteRow(@, phase, entry.name, latest_date_str)]
           /\ \E ds \in Series, q \in Quotes :
                /\ stock_data' = Captured(phase, entry.name, ds, q)
                /\ calls' = Append(calls,
                      [table |-> phase, name |-> entry.name,
                       symbol |-> Ticker(phase, entry.name),
                       start |-> latest_date_str, ok |-> TRUE, days |-> ds,
                       info |-> InfoOf(phase, q)])
                /\ shadow' = ShadowCall(strptime(latest_date_str), ds, q)
    /\ pc' = "merge"
    /\ UNCHANGED <<toml, db, cmd, config, phase, idx, entry, exit_code,
                   written, pre, after_update, missing_ranges, cliVars, concVars>>

\* update_missing_data: SELECT MAX(date), then the capture call from the
\* day after it
UpdateCapture ==
    /\ pc = "fetch"
    /\ cmd = "update"
    /\ LET latest_date_str == SelectMaxDate(conn[phase], phase, entry.name)
       IN  /\ latest_date_str # None
           /\ LET start_date == timedelta(strptime(latest_date_str), 1)
              IN  \E ds \in Series, q \in Quotes : ProviderCall(start_date, ds, q)

UpdateCaptureFails ==
    /\ pc = "fetch"
    /\ cmd = "update"
    /\ LET latest_date_str == SelectMaxDate(conn[phase], phase, entry.name)
       IN  /\ latest_date_str # None
           /\ ProviderRaise(timedelta(strptime(latest_date_str), 1))

\* update_missing_data: "if latest_date_str:" is false, the entry is left
UpdateSkip ==
    /\ pc = "fetch"
    /\ cmd = "update"
    /\ SelectMaxDate(conn[phase], phase, entry.name) = None
    /\ MoveTo(config, cmd, Advance(config, phase, idx))
    /\ UNCHANGED <<toml, db, conn, cmd, config, stock_data, exit_code, calls,
                   written, pre, after_update, missing_ranges, cliVars,
                   shadow, concVars>>

\* the insert loop taking an empty series for an error of the entry
Insert_EmptyIsError ==
    /\ pc = "merge"
    /\ IF DOMAIN stock_data.data = {}
       THEN /\ conn' = Closed
            /\ pc' = "exit"
            /\ exit_code' = "1"
            /\ shadow' = NoShadow
            /\ UNCHANGED <<phase, idx, entry, written>>
       ELSE LET rows == RowsToInsert(phase,
                           IF phase = "stocks" THEN stock_data.name
                           ELSE entry.name,
                           stock_data.data)
            IN  /\ conn' = [conn EXCEPT ![phase] = UpsertLoop(@, phase, rows)]
                /\ written' = Record(written, phase, rows)
                /\ shadow' = [shadow EXCEPT
                                ![phase] = UpsertLoop(@, phase, rows),
                                !.data = <<>>]
                /\ MoveTo(config, cmd, Advance(config, phase, idx))
                /\ UNCHANGED exit_code
    /\ stock_data' = NoData
    /\ UNCHANGED <<toml, db, cmd, config, calls, pre, after_update,
                   missing_ranges, cliVars, concVars>>

\* the insert loop of one entry
Insert ==
    /\ pc = "merge"
    /\ LET rows == RowsToInsert(phase,
                      IF phase = "stocks" THEN stock_data.name ELSE entry.name,
                      stock_data.data)
           again == RowsToInsert(phase,
                      IF phase = "stocks" THEN stock_data.name ELSE entry.name,
                      shadow.data)
       IN  /\ conn' = [conn EXCEPT ![phase] = UpsertLoop(@, phase, rows)]
           /\ written' = Record(written, phase, rows)
           /\ shadow' = [shadow EXCEPT ![phase] = UpsertLoop(@, phase, again),
                                       !.data = <<>>]
    /\ stock_data' = NoData
    /\ MoveTo(config, cmd, Advance(config, phase, idx))
    /\ UNCHANGED <<toml, db, cmd, config, exit_code, calls, pre, after_update,
                   missing_ranges, cliVars, concVars>>

\* conn.close(): no commit() was issued, the open transaction is rolled back
Close ==
    /\ pc = "close"
    /\ conn' = Closed
    /\ pc' = "exit"
    /\ exit_code' = "0"
    /\ shadow' = NoShadow
    /\ UNCHANGED <<toml, db, cmd, config, phase, idx, entry, stock_data, calls,
                   written, pre, after_update, missing_ranges, cliVars,
                   concVars>>

Next ==
    \/ \E c \in {"download", "update", "refresh"} : StartCommand(c)
    \/ UpdatePreprocess
    \/ Capture
    \/ CaptureFails
    \/ UpdateCapture
    \/ UpdateCaptureFails
    \/ UpdateSkip
    \/ Insert
    \/ Close

Spec == Init /\ [][Next]_vars


\* ------------------------------------------------------- the add command
\* the index of the first entry whose name equals stock exactly, or 0
FirstMatch_CaseSensitive(stocks, stock) ==
    LET hits == {i \in 1..Len(stocks) : stocks[i].name = stock}
    IN  IF hits = {} THEN 0 ELSE CHOOSE i \in hits : \A j \in hits : i <= j

\* the loop "for stock_entry in toml_config['stocks']" up to its break:
\* the index of the first entry with name.upper() == stock.upper(), or 0
FirstMatch(stocks, stock) ==
    LET hits == {i \in 1..Len(stocks) : Upper(stocks[i].name) = Upper(stock)}
    IN  IF hits = {} THEN 0 ELSE CHOOSE i \in hits : \A j \in hits : i <= j

\* the update writing start_date and end_date into every entry of the list
MatchOrAppend_EveryEntry(stocks, stock, start_date, end_date) ==
    LET i == FirstMatch(stocks, stock)
    IN  IF i > 0
        THEN [j \in 1..Len(stocks) |->
                [stocks[j] EXCEPT !.start_date = start_date,
                                  !.end_date = end_date]]
        ELSE Append(stocks, [name |-> Upper(stock), start_date |-> start_date,
                             end_date |-> end_date])

\* add_command: the matched entry gets start_date and end_date, or a new
\* entry named stock.upper() is appended
MatchOrAppend(stocks, stock, start_date, end_date) ==
    LET i == FirstMatch(stocks, stock)
    IN  IF i > 0
        THEN [stocks EXCEPT ![i] = [@ EXCEPT !.start_date = start_date,
                                             !.end_date = end_date]]
        ELSE Append(stocks, [name |-> Upper(stock), start_date |-> start_date,
                             end_date |-> end_date])

\* add, update or download leaving at one of the sys.exit(1) that follow
\* get_config_path()
ConfigError(c) ==
    /\ pc \in {"idle", "exit"}
    /\ SettingsError(fs)
    /\ fs' = get_config_path(fs)
    /\ cmd' = c
    /\ pc' = "exit"
    /\ exit_code' = "1"
    /\ calls' = <<>>
    /\ written' = {}
    /\ pre' = db
    /\ pre_toml' = toml
    /\ argv' = NoArgs
    /\ after_update' = FALSE
    /\ UNCHANGED <<toml, db, conn, config, phase, idx, entry, stock_data,
                   missing_ranges, shadow, concVars>>

\* add with a START_DATE that strptime rejects
AddBadDate(stock, start_date) ==
    /\ pc \in {"idle", "exit"}
    /\ ~SettingsError(fs)
    /\ ~ValidDate(start_date)
    /\ fs' = get_config_path(fs)
    /\ cmd' = "add"
    /\ argv' = [stock |-> stock, start_date |-> start_date]
    /\ pc' = "exit"
    /\ exit_code' = "1"
    /\ calls' = <<>>
    /\ written' = {}
    /\ pre' = db
    /\ pre_toml' = toml
    /\ after_update' = FALSE
    /\ UNCHANGED <<toml, db, conn, config, phase, idx, entry, stock_data,
                   missing_ranges, shadow, concVars>>

\* add capturing the entry of its symbol and no other
AddCommand_OnlyAdded(stock, start_date) ==
    /\ pc \in {"idle", "exit"}
    /\ ~SettingsError(fs)
    /\ ValidDate(start_date)
    /\ fs' = get_config_path(fs)
    /\ LET end_date == strftime(Today)
           toml_config == [toml EXCEPT !.stocks =
                             MatchOrAppend(@, stock, start_date, end_date)]
           i == FirstMatch(toml_config.stocks, stock)
           only == [stocks |-> <<toml_config.stocks[i]>>,
                    national_debt |-> <<>>]
       IN  /\ toml' = toml_config
           /\ config' = only
           /\ MoveTo(only, "add", Advance(only, "stocks", 0))
    /\ cmd' = "add"
    /\ argv' = [stock |-> stock, start_date |-> start_date]
    /\ conn' = [open |-> TRUE, stocks |-> db.stocks,
                national_debt |-> db.national_debt]
    /\ shadow' = [NoShadow EXCEPT !.stocks = db.stocks,
                                  !.national_debt = db.national_debt]
    /\ stock_data' = NoData
    /\ exit_code' = "run"
    /\ calls' = <<>>
    /\ written' = {}
    /\ pre' = db
    /\ pre_toml' = toml
    /\ after_update' = FALSE
    /\ UNCHANGED <<db, missing_ranges, concVars>>

\* add_command with valid settings and date: the tracked-symbol file is
\* rewritten, then capture_data(db_path, toml_path) starts
AddCommand(stock, start_date) ==
    /\ pc \in {"idle", "exit"}
    /\ ~SettingsError(fs)
    /\ ValidDate(start_date)
    /\ fs' = get_config_path(fs)
    /\ LET end_date == strftime(Today)
           toml_config == [toml EXCEPT !.stocks =
                             MatchOrAppend(@, stock, start_date, end_date)]
       IN  /\ toml' = toml_config
           /\ config' = toml_config
           /\ MoveTo(toml_config, "add", Advance(toml_config, "stocks", 0))
    /\ cmd' = "add"
    /\ argv' = [stock |-> stock, start_date |-> start_date]
    /\ conn' = [open |-> TRUE, stocks |-> db.stocks,
                national_debt |-> db.national_debt]
    /\ shadow' = [NoShadow EXCEPT !.stocks = db.stocks,
                                  !.national_debt = db.national_debt]
    /\ stock_data' = NoData
    /\ exit_code' = "run"
    /\ calls' = <<>>
    /\ written' = {}
    /\ pre' = db
    /\ pre_toml' = toml
    /\ after_update' = FALSE
    /\ UNCHANGED <<db, missing_ranges, concVars>>

AddSymbols == {"aapl", "AAPL", "msft"}

AddDates == {<<2023, 1, 2>>, <<2023, 13, 1>>}

\* a tracked entry as the default file writes them
Tracked0(name) ==
    [name |-> name, start_date |-> <<2023, 1, 1>>, end_date |-> <<2023, 12, 31>>]

\* tracked-symbol files: the default one, one edited by hand to lower case,
\* one with no stock
AddConfigs ==
    { [DEFAULT_TOML_CONFIG EXCEPT !.stocks = l]
      : l \in {<<>>, <<Tracked0("AAPL")>>, <<Tracked0("aapl")>>} }

\* working directories: config/ there or not, config.toml there or not,
\* with any of the two paths set
Settings ==
    { f \in [config_dir : BOOLEAN, exists : BOOLEAN,
             paths : SUBSET {"toml", "db"}]
      : /\ f.exists => f.config_dir
        /\ ~f.exists => f.paths = {} }

EmptyStore == [stocks |-> EmptyBag, national_debt |-> EmptyBag]

InitAdd ==
    /\ db = EmptyStore
    /\ toml \in AddConfigs
    /\ fs \in Settings
    /\ InitRun

\* the provider answering with one bar at most
OneBar == Cardinality(DOMAIN stock_data.data) <= 1

NextAdd ==
    \/ \E stock \in AddSymbols, start_date \in AddDates :
         AddCommand(stock, start_date)
    \/ \E stock \in AddSymbols, start_date \in AddDates :
         AddBadDate(stock, start_date)
    \/ \E c \in {"add", "update", "download"} : ConfigError(c)
    \/ StartCommand("download")
    \/ Capture /\ OneBar'
    \/ CaptureFails
    \/ Insert
    \/ Close

SpecAdd == InitAdd /\ [][NextAdd]_vars


\* ------------------------------------------- files other than the default
\* the default file with the nation renamed and the end_date of both
\* entries rewritten or (None) taken out
Edited(nation, end_date) ==
    [stocks |-> <<[Tracked0("AAPL") EXCEPT !.end_date = end_date]>>,
     national_debt |-> <<[Tracked0(nation) EXCEPT !.end_date = end_date]>>]

Nations == {"US", "DGS10"}

EndDates == {None, <<2023, 1, 1>>, <<2023, 12, 31>>}

\* the stores with one row at most, under the keys of the file
OneRowStores(cfg) ==
    {EmptyStore}
      \cup {[EmptyStore EXCEPT !.stocks =
               SetToBag({SeedStock(cfg.stocks[1].name, d)})] : d \in Days}
      \cup {[EmptyStore EXCEPT !.national_debt =
               SetToBag({SeedDebt(cfg.national_debt[1].name, d)})] : d \in Days}

InitEdited ==
    /\ toml \in {Edited(n, e) : n \in Nations, e \in EndDates}
    /\ db \in OneRowStores(toml)
    /\ fs = Configured
    /\ InitRun

SpecEdited == InitEdited /\ [][Next]_vars


\* ------------------------------- a store shared with keys not tracked
\* rows of a stock and of a nation that the file does not name
Untracked ==
    [stocks |-> SetToBag({SeedStock("MSFT", 2)}),
     national_debt |-> SetToBag({SeedDebt("DGS10", 2)})]

InitShared ==
    /\ db \in {[stocks |-> X.stocks (+) Untracked.stocks,
                 national_debt |-> X.national_debt (+) Untracked.national_debt]
               : X \in OneRowStores(DEFAULT_TOML_CONFIG)}
    /\ InitRest

\* a step of the operation running: the process is not stopped, a provider
\* call returns or raises, a statement of the store returns
RunStep ==
    \/ UpdatePreprocess
    \/ Capture
    \/ CaptureFails
    \/ UpdateCapture
    \/ UpdateCaptureFails
    \/ UpdateSkip
    \/ Insert
    \/ Close

SpecShared == InitShared /\ [][Next]_vars /\ WF_vars(RunStep)


\* ------------------------------------------------ two runs side by side
\* Two processes run capture_data on the same database file.  Each has its
\* own connection; a connection sees the committed tables and its own
\* uncommitted writes.  The first INSERT of a connection opens its
\* transaction and takes the write lock of the file, held until the
\* connection is closed (no commit() is issued); an INSERT on the other
\* connection meanwhile raises sqlite3.OperationalError (database is locked).
runVars == <<toml, conn, cmd, pc, config, phase, idx, entry, stock_data,
             exit_code, calls, written, pre, after_update, missing_ranges,
             cliVars, shadow>>

\* sqlite3.connect(db_file) in process p
ConcConnect(p) ==
    /\ procs[p].pc \in {"idle", "done", "failed"}
    /\ procs' = [procs EXCEPT ![p] = [pc |-> "open", stocks |-> db.stocks,
                                      national_debt |-> db.national_debt,
                                      wrote |-> {}]]
    /\ UNCHANGED <<db, db_lock, runVars>>

\* one execution of INSERT OR REPLACE INTO stocks in process p, the lock
\* free or its own (national_debt is declared and written the same way)
ConcUpsert(p) ==
    /\ procs[p].pc = "open"
    /\ db_lock \in {0, p}
    /\ \E d \in Days, q \in Quotes :
         LET table == "stocks"
             name == toml[table][1].name
             row == RowsToInsert(table, name,
                                 Captured(table, name, {d}, q).data)[d]
         IN  procs' = [procs EXCEPT
                        ![p][table] = InsertOrReplace(@, table, row),
                        ![p].wrote = @ \cup {<<table, name, row.date>>}]
    /\ db_lock' = p
    /\ UNCHANGED <<db, runVars>>

\* INSERT OR REPLACE in process p while the other process holds the lock:
\* the statement raises, capture_data is left, the connection is dropped
ConcLocked(p) ==
    /\ procs[p].pc = "open"
    /\ db_lock \notin {0, p}
    /\ procs' = [procs EXCEPT ![p] = [@ EXCEPT !.pc = "failed",
                                                !.stocks = EmptyBag,
                                                !.national_debt = EmptyBag]]
    /\ UNCHANGED <<db, db_lock, runVars>>

\* conn.close() in process p: its transaction is rolled back, its lock freed
ConcClose(p) ==
    /\ procs[p].pc = "open"
    /\ procs' = [procs EXCEPT ![p] = [@ EXCEPT !.pc = "done",
                                                !.stocks = EmptyBag,
                                                !.national_debt = EmptyBag]]
    /\ db_lock' = IF db_lock = p THEN 0 ELSE db_lock
    /\ UNCHANGED <<db, runVars>>

InitConc ==
    /\ db \in OneRowStores(DEFAULT_TOML_CONFIG)
    /\ InitRest

NextConc ==
    \E p \in {1, 2} :
        \/ ConcConnect(p)
        \/ ConcUpsert(p)
        \/ ConcLocked(p)
        \/ ConcClose(p)

SpecConc == InitConc /\ [][NextConc]_vars


\* --------------------------------------------------------- gap detection
\* SELECT date ... ORDER BY date ASC: the date strings in TEXT order
RECURSIVE OrderByDateAsc(_)
OrderByDateAsc(ds) ==
    IF ds = {} THEN <<>>
    ELSE LET m == CHOOSE x \in ds : \A y \in ds : x = y \/ TextLess(x, y)
         IN  <<m>> \o OrderByDateAsc(ds \ {m})

\* the loop with the test ">= 1" in place of "> 1"
RECURSIVE MissingLoop_OffByOne(_, _, _)
MissingLoop_OffByOne(dates, i, ranges) ==
    IF i > Len(dates) - 1 THEN ranges
    ELSE IF dates[i + 1] - dates[i] >= 1
         THEN MissingLoop_OffByOne(dates, i + 1,
                 Append(ranges, <<strftime(timedelta(dates[i], 1)),
                                  strftime(timedelta(dates[i + 1], -1))>>))
         ELSE MissingLoop_OffByOne(dates, i + 1, ranges)

\* "for i in range(len(dates) - 1)" from index i on (1-based), appending to
\* missing_ranges
RECURSIVE MissingLoop(_, _, _)
MissingLoop(dates, i, ranges) ==
    IF i > Len(dates) - 1 THEN ranges
    ELSE LET current_date == dates[i]
             next_date == dates[i + 1]
         IN  IF next_date - current_date > 1
             THEN LET start_missing == timedelta(current_date, 1)
                      end_missing == timedelta(next_date, -1)
                  IN  MissingLoop(dates, i + 1,
                         Append(ranges, <<strftime(start_missing),
                                          strftime(end_missing)>>))
             ELSE MissingLoop(dates, i + 1, ranges)

get_missing_date_ranges_stock(symbol, T) ==
    LET rows == OrderByDateAsc(DatesOf(T, "stocks", symbol))
    IN  IF rows = <<>> THEN <<>>
        ELSE MissingLoop([i \in 1..Len(rows) |-> strptime(rows[i])], 1, <<>>)

get_missing_date_ranges_debt(nation, T) ==
    LET rows == OrderByDateAsc(DatesOf(T, "national_debt", nation))
    IN  IF rows = <<>> THEN <<>>
        ELSE MissingLoop([i \in 1..Len(rows) |-> strptime(rows[i])], 1, <<>>)

\* stores with any days of the window stored for the stock and the nation
GapStores ==
    { [stocks |-> SetToBag({SeedStock("AAPL", d) : d \in A}),
       national_debt |-> SetToBag({SeedDebt("US", d) : d \in B})]
      : A \in SUBSET (1..GapDays), B \in SUBSET (1..GapDays) }

InitGap ==
    /\ db \in GapStores
    /\ InitRest

\* _get_missing_date_ranges_stock(symbol, conn) on a fresh connection
GetMissingStock ==
    /\ pc = "idle"
    /\ \E symbol \in {"AAPL", "MSFT"} :
         missing_ranges' = [table |-> "stocks", key |-> symbol,
                            ranges |-> get_missing_date_ranges_stock(symbol, db.stocks)]
    /\ UNCHANGED <<toml, db, conn, cmd, pc, config, phase, idx, entry,
                   stock_data, exit_code, calls, written, pre, after_update,
                   cliVars, shadow, concVars>>

\* _get_missing_date_ranges_debt(nation, conn) on a fresh connection
GetMissingDebt ==
    /\ pc = "idle"
    /\ \E nation \in {"US", "DGS10"} :
         missing_ranges' = [table |-> "national_debt", key |-> nation,
                            ranges |-> get_missing_date_ranges_debt(nation, db.national_debt)]
    /\ UNCHANGED <<toml, db, conn, cmd, pc, config, phase, idx, entry,
                   stock_data, exit_code, calls, written, pre, after_update,
                   cliVars, shadow, concVars>>

NextGap == GetMissingStock \/ GetMissingDebt

SpecGap == InitGap /\ [][NextGap]_vars


\* ---------------------------------------------------------------- claims
Tables == {"stocks", "national_debt"}

SamePair(table, r1, r2) ==
    r1[KeyOf(table)] = r2[KeyOf(table)] /\ r1.date = r2.date

\* every (key, date) of the tables of X has one row
Unique(X) ==
    \A table \in Tables : \A r \in DOMAIN X[table] :
        /\ X[table][r] = 1
        /\ \A r2 \in DOMAIN X[table] : SamePair(table, r, r2) => r2 = r

\* the (key, date) pairs stored in X
Pairs(X) ==
    UNION {{<<table, r[KeyOf(table)], r.date>> : r \in DOMAIN X[table]}
           : table \in Tables}

\* every provider call so far returned only days on or after its start
ProviderHonest ==
    \A i \in 1..Len(calls) : \A d \in calls[i].days :
        ~TextLess(strftime(d), calls[i].start)

\* the tracked entries of the running operation, as <<table, index>>
Tracked ==
    UNION {{<<table, i>> : i \in 1..Len(config[table])} : table \in Tables}

\* the rows of X's table with key k dated strictly before date string L
OlderRows(X, table, k, L) ==
    {r \in RowsOf(X[table], table, k) : TextLess(r.date, L)}

\* X holds, unchanged and alone for their pair, all rows the operation found
\* dated strictly before the latest date each tracked key then had
KeepsOlderRows(X) ==
    \A t \in Tracked :
        LET table == t[1]
            k == config[table][t[2]].name
            L == SelectMaxDate(pre[table], table, k)
        IN  L # None =>
              \A r \in OlderRows(pre, table, k, L) :
                  /\ r \in DOMAIN X[table]
                  /\ X[table][r] = pre[table][r]
                  /\ \A r2 \in DOMAIN X[table] : SamePair(table, r, r2) => r2 = r

\* C1: through any sequence of upserts every (key, date) pair written has
\* exactly one row in its table, and that row is, field for field, the row of
\* the last upsert for the pair (a pe that was a number and is now absent is
\* NULL); no pair of either table has two rows.
C1_LastUpsertWins ==
    conn.open =>
        /\ Unique(conn)
        /\ \A w \in written :
              /\ w.row \in DOMAIN conn[w.table]
              /\ conn[w.table][w.row] = 1
              /\ \A r \in DOMAIN conn[w.table] :
                    SamePair(w.table, r, w.row) => r = w.row

C1_Witness ==
    /\ conn.open
    /\ \E w \in written :
          /\ w.table = "stocks"
          /\ w.row.pe = "NULL"
          /\ w.row \in DOMAIN conn.stocks
          /\ \E r \in DOMAIN pre.stocks :
                SamePair("stocks", r, w.row) /\ r.pe # "NULL"

\* C2: an update that follows an update that ended without error, and during
\* which the provider returns no data, leaves the store as the first update
\* left it: the committed tables are the same, and so are the tables the
\* connection sees when the run has processed every entry.
C2_UpdateTwice ==
    ( /\ after_update
      /\ cmd = "update"
      /\ pc \in {"close", "exit"}
      /\ exit_code # "1"
      /\ \A i \in 1..Len(calls) : calls[i].days = {} )
    => /\ db = pre
       /\ pc = "close" => /\ conn.stocks = pre.stocks
                         /\ conn.national_debt = pre.national_debt

C2_Witness ==
    /\ after_update
    /\ cmd = "update"
    /\ pc = "close"
    /\ Len(calls) >= 1
    /\ \A i \in 1..Len(calls) : calls[i].ok /\ calls[i].days = {}
    /\ conn.stocks = pre.stocks
    /\ conn.national_debt = pre.national_debt

\* C3: while the provider returns only days on or after the requested start,
\* an update leaves every row dated strictly before the latest date its key
\* had when the run started as it was, in the connection's tables and in the
\* committed ones.
C3_AppendOnlyBoundary ==
    (cmd = "update" /\ ProviderHonest) =>
        /\ KeepsOlderRows(db)
        /\ conn.open => KeepsOlderRows(conn)

C3_Witness ==
    /\ cmd = "update"
    /\ pc = "close"
    /\ ProviderHonest
    /\ \E w \in written :
          /\ w.table = "stocks"
          /\ OlderRows(pre, "stocks", w.row.symbol,
                       SelectMaxDate(pre.stocks, "stocks", w.row.symbol)) # {}
          /\ KeepsOlderRows(conn)

\* C4: an update that has processed every entry has, for each tracked key
\* that had no stored row, called the provider with the key's configured
\* start_date and upserted every returned point.
C4_EmptyKeyIsFullCapture ==
    (cmd = "update" /\ pc = "close") =>
        \A t \in Tracked :
            LET table == t[1]
                e == config[table][t[2]]
            IN  SelectMaxDate(pre[table], table, e.name) = None =>
                  \E j \in 1..Len(calls) :
                      /\ calls[j].table = table
                      /\ calls[j].name = e.name
                      /\ calls[j].start = e.start_date
                      /\ \A d \in calls[j].days :
                            strftime(d) \in DatesOf(conn[table], table, e.name)

\* the latest day of a set of day ordinals
MaxOf(ds) == CHOOSE m \in ds : \A d \in ds : d <= m

\* C5: after a full capture that ended without error, a new connection reads,
\* for each key that had no row, the latest date the provider returned for
\* it, or none when the provider returned an empty series.
C5_FreshReadSeesCapture ==
    (cmd = "download" /\ pc = "exit" /\ exit_code = "0") =>
        \A j \in 1..Len(calls) :
            LET c == calls[j]
            IN  SelectMaxDate(pre[c.table], c.table, c.name) = None =>
                  SelectMaxDate(db[c.table], c.table, c.name) =
                      IF c.days = {} THEN None ELSE strftime(MaxOf(c.days))

\* C6: after an operation has ended on a provider failure, every row it had
\* upserted for the earlier keys is in the committed tables.
C6_EarlierRowsStay ==
    (pc = "exit" /\ exit_code = "1") =>
        \A w \in written : w.row \in DOMAIN db[w.table]

\* the position of an entry in the order of processing
Position(table, i) == IF table = "stocks" THEN i ELSE Len(config.stocks) + i

\* C7: a failed provider call is the last call of its operation: the operation
\* has ended with exit code 1 at the entry that failed, its connection is
\* gone, and no entry after that one was called for or written.
C7_FailureAborts ==
    \A i \in 1..Len(calls) :
        ~calls[i].ok =>
            /\ i = Len(calls)
            /\ pc = "exit"
            /\ exit_code = "1"
            /\ ~conn.open
            /\ calls[i].table = phase /\ calls[i].name = entry.name
            /\ \A t \in Tracked :
                  Position(t[1], t[2]) > Position(phase, idx) =>
                      /\ \A j \in 1..Len(calls) :
                            ~(calls[j].table = t[1]
                              /\ calls[j].name = config[t[1]][t[2]].name)
                      /\ \A w \in written :
                            ~(w.table = t[1]
                              /\ w.row[KeyOf(t[1])] = config[t[1]][t[2]].name)

C7_Witness ==
    /\ exit_code = "1"
    /\ pc = "exit"
    /\ phase = "stocks"
    /\ Len(config.national_debt) > 0
    /\ Len(calls) = 1
    /\ ~calls[1].ok

\* C8: while the provider returns only days on or after the requested start,
\* a destructive refresh leaves every row dated strictly before its key's
\* pre-run latest date as it was, so that of the rows it found at most one per
\* key (the one at that latest date) is changed or gone, and every row it
\* writes for the key is dated on or after that date.
C8_RefreshScope ==
    (cmd = "refresh" /\ ProviderHonest) =>
        /\ KeepsOlderRows(db)
        /\ conn.open =>
              /\ KeepsOlderRows(conn)
              /\ \A t \in Tracked :
                    LET table == t[1]
                        k == config[table][t[2]].name
                        L == SelectMaxDate(pre[table], table, k)
                        gone == {r \in RowsOf(pre[table], table, k) :
                                    r \notin DOMAIN conn[table]}
                    IN  L # None =>
                          /\ Cardinality(gone) <= 1
                          /\ \A r \in gone : r.date = L
                          /\ \A w \in written :
                                (w.table = table /\ w.row[KeyOf(table)] = k)
                                    => ~TextLess(w.row.date, L)

C8_Witness ==
    /\ cmd = "refresh"
    /\ pc = "close"
    /\ ProviderHonest
    /\ LET L == SelectMaxDate(pre.stocks, "stocks", "AAPL")
       IN  /\ L # None
           /\ OlderRows(pre, "stocks", "AAPL", L) # {}
           /\ \E w \in written :
                 /\ w.table = "stocks" /\ w.row.date = L
                 /\ w.row \in DOMAIN conn.stocks
                 /\ w.row \notin DOMAIN pre.stocks

\* C9: a full capture and an update remove no stored (key, date) pair: the
\* pairs the operation found are all still stored, in the connection's tables
\* and in the committed ones.
C9_NoPairRemoved ==
    cmd \in {"download", "update"} =>
        /\ Pairs(pre) \subseteq Pairs(db)
        /\ conn.open => Pairs(pre) \subseteq Pairs(conn)

C9_Witness ==
    /\ cmd \in {"download", "update"}
    /\ pc = "close"
    /\ Pairs(pre) # {}
    /\ Pairs(pre) \subseteq Pairs(conn)
    /\ Pairs(conn) # Pairs(pre)

\* the ranges gap detection is to return for the stored days D
ExpectedRanges(D) ==
    {<<strftime(a + 1), strftime(b - 1)>> : <<a, b>> \in
        {p \in D \X D : /\ p[2] - p[1] > 1
                        /\ \A x \in D : ~(p[1] < x /\ x < p[2])}}

\* C10: gap detection returns, in ascending order and once each, the range
\* (d + 1 day, e - 1 day) for every two consecutive stored dates d < e more
\* than one day apart, and nothing else; nothing for at most one stored date;
\* and for 2023-01-01, 2023-01-02, 2023-01-04 exactly
\* [(2023-01-03, 2023-01-03)].
C10_GapDetection ==
    missing_ranges.table # "" =>
        LET table == missing_ranges.table
            stored == DatesOf(db[table], table, missing_ranges.key)
            D == {strptime(x) : x \in stored}
            R == missing_ranges.ranges
        IN  /\ {R[i] : i \in 1..Len(R)} = ExpectedRanges(D)
            /\ Len(R) = Cardinality(ExpectedRanges(D))
            /\ \A i \in 1..Len(R) : \A j \in 1..Len(R) :
                  i < j => TextLess(R[i][1], R[j][1])
            /\ Cardinality(stored) <= 1 => R = <<>>
            /\ stored = {<<2023, 1, 1>>, <<2023, 1, 2>>, <<2023, 1, 4>>}
                  => R = << <<<<2023, 1, 3>>, <<2023, 1, 3>>>> >>

C10_Witness ==
    /\ missing_ranges.table = "stocks"
    /\ missing_ranges.key = "AAPL"
    /\ DatesOf(db.stocks, "stocks", "AAPL")
          = {<<2023, 1, 1>>, <<2023, 1, 2>>, <<2023, 1, 4>>}
    /\ missing_ranges.ranges = << <<<<2023, 1, 3>>, <<2023, 1, 3>>>> >>


\* ---------------------------------------------------- claims C11 .. C20
\* no two entries of the list have names equal ignoring case
NoCaseDup(l) ==
    \A i, j \in 1..Len(l) : i # j => Upper(l[i].name) # Upper(l[j].name)

\* the entries of the list whose name equals stock ignoring case
Matching(l, stock) == {i \in 1..Len(l) : Upper(l[i].name) = Upper(stock)}

\* the add command running or last run got as far as writing the file
AddWrote == cmd = "add" /\ argv.stock # "" /\ ValidDate(argv.start_date)

\* C11: add of a symbol that equals a tracked name ignoring case updates
\* that entry and appends nothing: a list without two names equal ignoring
\* case stays so, and it grows by one exactly when no entry matched.
C11_MatchOrAppend ==
    AddWrote =>
      /\ NoCaseDup(pre_toml.stocks) => NoCaseDup(toml.stocks)
      /\ Len(toml.stocks) =
            Len(pre_toml.stocks)
              + (IF Matching(pre_toml.stocks, argv.stock) = {} THEN 1 ELSE 0)

C11_Witness ==
    /\ AddWrote
    /\ argv.stock = "aapl"
    /\ \E i \in 1..Len(pre_toml.stocks) : pre_toml.stocks[i].name = "AAPL"
    /\ Len(toml.stocks) = Len(pre_toml.stocks)

\* C12: after add has written the file, the entry it created or updated has
\* its name in upper case, whatever the case of the argument and of the
\* name the matched entry had.
C12_StoredNameUpper ==
    AddWrote =>
      /\ Matching(toml.stocks, argv.stock) # {}
      /\ \A i \in Matching(toml.stocks, argv.stock) :
            toml.stocks[i].name = Upper(argv.stock)

\* C14: add, update or download leaving on a configuration error (settings
\* file missing, a path unset, a start date that does not parse) makes no
\* provider call and changes neither the tracked-symbol file, nor the
\* store, nor any file or directory.
C14_ConfigErrorNoEffect ==
    [][ (pc \in {"idle", "exit"} /\ pc' = "exit" /\ exit_code' = "1")
          => /\ calls' = <<>>
             /\ toml' = toml
             /\ db' = db
             /\ fs' = fs ]_vars

\* C17: after add SYMBOL START_DATE has written the file, the entry matching
\* SYMBOL has start_date START_DATE and end_date today, every other stocks
\* entry is as it was, and the national_debt list is as it was.
C17_AddFrame ==
    AddWrote =>
      LET i == FirstMatch(toml.stocks, argv.stock)
      IN  /\ i > 0
          /\ toml.stocks[i].start_date = argv.start_date
          /\ toml.stocks[i].end_date = strftime(Today)
          /\ \A j \in 1..Len(pre_toml.stocks) :
                j # i => toml.stocks[j] = pre_toml.stocks[j]
          /\ Len(toml.stocks) \in {Len(pre_toml.stocks), Len(pre_toml.stocks) + 1}
          /\ Len(toml.stocks) = Len(pre_toml.stocks) + 1 => i = Len(toml.stocks)
          /\ toml.national_debt = pre_toml.national_debt

C17_Witness ==
    /\ AddWrote
    /\ Len(pre_toml.stocks) = 2
    /\ Len(toml.stocks) = 2
    /\ Len(toml.national_debt) = 1
    /\ toml.stocks[FirstMatch(toml.stocks, argv.stock)].start_date
         # pre_toml.stocks[FirstMatch(toml.stocks, argv.stock)].start_date

\* C13: a nation that is not in the lookup table resolves to ^TNX, the same
\* instrument as a recognised nation, and the fetch goes on as for any
\* nation: every provider call made for a national_debt entry asks for
\* ^TNX, and what it returns is stored under the nation as configured.
C13_NationFallback ==
    /\ \A j \in 1..Len(calls) :
          calls[j].table = "national_debt" =>
            /\ calls[j].symbol = "^TNX"
            /\ calls[j].symbol = TREASURY_SYMBOLS("US")
    /\ \A w \in written :
          w.table = "national_debt" =>
            \E j \in 1..Len(calls) : /\ calls[j].ok
                                      /\ calls[j].table = "national_debt"
                                      /\ calls[j].name = w.row.nation
                                      /\ strptime(w.row.date) \in calls[j].days

C13_Witness ==
    /\ pc = "close"
    /\ \E j \in 1..Len(calls) : /\ calls[j].name = "DGS10"
                                  /\ calls[j].ok
                                  /\ calls[j].days # {}
    /\ \E r \in BagToSet(conn.national_debt) : r.nation = "DGS10"

After(c) ==
    {t \in Tracked :
       \E u \in Tracked : /\ u[1] = c.table
                          /\ config[u[1]][u[2]].name = c.name
                          /\ Position(t[1], t[2]) > Position(u[1], u[2])}

\* C16: an empty series from the provider is no error under full capture
\* and incremental append: no row is written for the key, the rows the key
\* had stay as they were, the operation does not end in failure because of
\* it, and every later tracked key is still called for.
C16_EmptySeriesIsValid ==
    cmd \in {"download", "update"} =>
      /\ exit_code = "1" => Len(calls) > 0 /\ ~calls[Len(calls)].ok
      /\ \A j \in 1..Len(calls) :
            (calls[j].ok /\ calls[j].days = {}) =>
              LET table == calls[j].table
                  k == calls[j].name
              IN  /\ \A w \in written :
                        ~(w.table = table /\ w.row[KeyOf(table)] = k)
                  /\ conn.open =>
                        /\ RowsOf(conn[table], table, k)
                              = RowsOf(pre[table], table, k)
                        /\ \A r \in RowsOf(pre[table], table, k) :
                              CopiesIn(r, conn[table]) = CopiesIn(r, pre[table])
                  /\ (pc \in {"close", "exit"} /\ exit_code # "1") =>
                        \A t \in After(calls[j]) :
                          LET n == config[t[1]][t[2]].name
                          IN  (cmd = "download"
                                 \/ RowsOf(pre[t[1]], t[1], n) # {}) =>
                                \E i \in j + 1..Len(calls) :
                                  calls[i].table = t[1] /\ calls[i].name = n

C16_Witness ==
    /\ pc = "close"
    /\ cmd \in {"download", "update"}
    /\ Len(calls) = 2
    /\ calls[1].ok /\ calls[1].days = {}
    /\ calls[2].ok /\ calls[2].days # {}
    /\ RowsOf(conn.stocks, "stocks", calls[1].name) # {}

\* every call of the running update asks from the day after the latest date
\* its key had when the run started, a day later than every stored date
AsksFromDayAfterLatest ==
    \A j \in 1..Len(calls) :
        LET L == SelectMaxDate(pre[calls[j].table], calls[j].table, calls[j].name)
        IN  /\ L # None
            /\ calls[j].start = strftime(timedelta(strptime(L), 1))
            /\ \A d \in DatesOf(pre[calls[j].table], calls[j].table,
                                 calls[j].name) :
                  TextLess(d, calls[j].start)

\* no row the running operation upserted has a date its key had stored
\* when the run started
WritesNoStoredDate ==
    \A w \in written :
        w.row.date \notin DatesOf(pre[w.table], w.table, w.row[KeyOf(w.table)])

KeyState(t) ==
    IF ~(phase = t[1] /\ idx = t[2]) THEN "IDLE"
    ELSE IF pc = "fetch"
              /\ (cmd = "update" =>
                    SelectMaxDate(conn[phase], phase, entry.name) # None)
         THEN "FETCHING"
    ELSE IF pc = "merge" THEN "MERGING"
    ELSE IF pc = "exit" /\ exit_code = "1" THEN "FAILED"
    ELSE "IDLE"

KeyMoves ==
    { <<"IDLE", "IDLE">>, <<"IDLE", "FETCHING">>, <<"FETCHING", "MERGING">>,
      <<"MERGING", "IDLE">>, <<"FETCHING", "FAILED">> }

\* C20: within a run every tracked key moves only IDLE -> FETCHING ->
\* MERGING -> IDLE, or FETCHING -> FAILED when the provider raises; a row
\* enters a table only in the step out of MERGING, for the key whose call
\* has returned and with the whole series of that call at hand; a key that
\* FAILED has no row upserted and the connection is gone.
C20_KeyStateMachine ==
    [][ pc \notin {"idle", "exit"} =>
          /\ \A t \in Tracked : <<KeyState(t), KeyState(t)'>> \in KeyMoves
          /\ \A table \in Tables :
                (\E r \in DOMAIN conn'[table] : r \notin DOMAIN conn[table]) =>
                  /\ pc = "merge"
                  /\ phase = table
                  /\ calls' = calls
                  /\ calls[Len(calls)].ok
                  /\ calls[Len(calls)].table = table
                  /\ calls[Len(calls)].name = entry.name
                  /\ calls[Len(calls)].days = DOMAIN stock_data.data
                  /\ \A r \in DOMAIN conn'[table] :
                        r \notin DOMAIN conn[table] =>
                          /\ r[KeyOf(table)] = entry.name
                          /\ strptime(r.date) \in calls[Len(calls)].days
          /\ \A t \in Tracked :
                KeyState(t)' = "FAILED" =>
                  /\ KeyState(t) = "FETCHING"
                  /\ ~conn'.open
                  /\ written' = written
                  /\ \A w \in written' :
                        ~(w.table = t[1]
                          /\ w.row[KeyOf(t[1])] = config[t[1]][t[2]].name) ]_vars

C20_Witness ==
    /\ pc = "close"
    /\ Len(calls) = 2
    /\ \E w \in written : w.table = "stocks"
    /\ \E w \in written : w.table = "national_debt"

\* both processes have upserted one same (key, date) since they connected,
\* while the other was connected or after it
BothWrote == procs[1].wrote \cap procs[2].wrote # {}

\* the file and both connections hold one row at most for every (key, date)
UniqueEverywhere == Unique(db) /\ Unique(procs[1]) /\ Unique(procs[2])

EntryOf(c) ==
    CHOOSE t \in Tracked : t[1] = c.table /\ config[t[1]][t[2]].name = c.name

\* C21: within one command the keys are processed one after another, all
\* stocks entries in the order of the file and then all national_debt
\* entries in the order of the file; when the call for a key is made every
\* row of the key before it has been upserted; never are two keys fetching
\* or merging at once.
C21_OneKeyAtATime ==
    pc \notin {"idle", "exit"} =>
      /\ \A j, k \in 1..Len(calls) :
            j < k =>
              LET a == EntryOf(calls[j])
                  b == EntryOf(calls[k])
              IN  /\ Position(a[1], a[2]) < Position(b[1], b[2])
                  /\ a[1] = "national_debt" => b[1] = "national_debt"
      /\ \A j \in 1..Len(calls) :
            (j < Len(calls) \/ pc # "merge") =>
              \A d \in calls[j].days :
                \E w \in written : /\ w.table = calls[j].table
                                    /\ w.row[KeyOf(w.table)] = calls[j].name
                                    /\ w.row.date = strftime(d)
      /\ Cardinality({t \in Tracked :
                        KeyState(t) \in {"FETCHING", "MERGING"}}) <= 1
      /\ \A t \in Tracked :
            KeyState(t) \in {"FETCHING", "MERGING"} =>
              \A j \in 1..Len(calls) :
                LET a == EntryOf(calls[j])
                IN  Position(a[1], a[2]) <= Position(t[1], t[2])

C21_Witness ==
    /\ pc = "close"
    /\ Len(config.stocks) = 2
    /\ Len(calls) = 3
    /\ \A j \in 1..3 : calls[j].days # {}

\* the rows of the running entry's key, in the connection and as found
KeyRows == RowsOf(conn[phase], phase, entry.name)

KeyRowsBefore == RowsOf(pre[phase], phase, entry.name)

\* C22: destructive refresh of a key that has rows deletes the row at the
\* key's latest date and no other, then asks the provider from that date,
\* then upserts; before the delete the key's rows are as found and no call
\* was made for it; a key without rows loses nothing and is asked for from
\* its configured start_date.
C22_RefreshOrder ==
    (cmd = "refresh" /\ pc \in {"pre", "fetch", "merge"}) =>
      LET L == SelectMaxDate(pre[phase], phase, entry.name)
          asked == {j \in 1..Len(calls) :
                      calls[j].table = phase /\ calls[j].name = entry.name}
      IN  /\ pc = "pre" => KeyRows = KeyRowsBefore /\ asked = {}
          /\ pc = "fetch" =>
                /\ asked = {}
                /\ KeyRows = {r \in KeyRowsBefore : r.date # L}
                /\ Cardinality(KeyRows) =
                      Cardinality(KeyRowsBefore) - (IF L = None THEN 0 ELSE 1)
                /\ \A r \in KeyRows : CopiesIn(r, conn[phase]) = 1
                /\ entry.start_date =
                      IF L = None THEN config[phase][idx].start_date ELSE L
          /\ pc = "merge" =>
                /\ asked = {Len(calls)}
                /\ calls[Len(calls)].start =
                      IF L = None THEN config[phase][idx].start_date ELSE L
                /\ KeyRows = {r \in KeyRowsBefore : r.date # L}

C22_Witness ==
    /\ cmd = "refresh"
    /\ pc = "merge"
    /\ Cardinality(KeyRowsBefore) = 2
    /\ Cardinality(KeyRows) = 1
    /\ calls[Len(calls)].days # {}

\* the rows the running operation upserted for call c
WrittenFor(c) ==
    {w.row : w \in {x \in written : /\ x.table = c.table
                                      /\ x.row[KeyOf(x.table)] = c.name}}

\* C23: the stock rows written from one fetch of one key all carry the same
\* pe, and when the provider gave no numeric trailing P/E that pe is null in
\* every one of them; when it gave a number, that number.
C23_OnePePerFetch ==
    /\ pc = "merge" /\ phase = "stocks" =>
          \A d, e \in DOMAIN stock_data.data :
              stock_data.data[d].pe = stock_data.data[e].pe
    /\ \A j \in 1..Len(calls) :
          (calls[j].ok /\ calls[j].table = "stocks"
             /\ (j < Len(calls) \/ pc # "merge")) =>
            /\ {strptime(r.date) : r \in WrittenFor(calls[j])} = calls[j].days
            /\ \A r \in WrittenFor(calls[j]) :
                  r.pe = IF calls[j].info \in Numbers THEN calls[j].info
                         ELSE "NULL"
            /\ conn.open => \A r \in WrittenFor(calls[j]) :
                              CopiesIn(r, conn.stocks) = 1

C23_Witness ==
    /\ pc = "close"
    /\ \E j \in 1..Len(calls) :
          /\ calls[j].table = "stocks"
          /\ calls[j].info = ""
          /\ Cardinality(calls[j].days) = 2
          /\ \A r \in WrittenFor(calls[j]) : r.pe = "NULL"
          /\ Cardinality(WrittenFor(calls[j])) = 2

\* the key of call c had a row dated today when the operation started
StoredToday(c) == strftime(Today) \in DatesOf(pre[c.table], c.table, c.name)

\* the call c has been followed by its insert loop
Merged(j) == j < Len(calls) \/ pc # "merge"

CallsFor(t) ==
    {j \in 1..Len(calls) :
       calls[j].table = t[1] /\ calls[j].name = config[t[1]][t[2]].name}

\* one call at most per tracked entry; a download that got through made
\* one for each
OneCallPerEntry ==
    /\ \A t \in Tracked : Cardinality(CallsFor(t)) <= 1
    /\ Len(calls) <= Cardinality(Tracked)
    /\ (cmd = "download" /\ (pc = "close" \/ (pc = "exit" /\ exit_code = "0")))
          => \A t \in Tracked : Cardinality(CallsFor(t)) = 1

\* C25: a download, update or refresh over the entries of the file ends,
\* done or failed, as long as it is let run and each provider call returns
\* or raises; it makes one provider call at most per entry, and a download
\* that did not fail exactly one per entry.
C25_RunsEnd ==
    /\ []OneCallPerEntry
    /\ (pc \notin {"idle", "exit"}) ~> (pc = "exit")

C25_Witness ==
    /\ pc = "exit"
    /\ cmd = "download"
    /\ exit_code = "0"
    /\ Len(calls) = 2

\* the rows of the connection that are not rows of key k in table
RowsBeside(X, table, k) ==
    [t \in Tables |->
       LET keep == {r \in DOMAIN X[t] : t # table \/ r[KeyOf(t)] # k}
       IN  [r \in keep |-> X[t][r]]]

\* C30: a step of the processing of one tracked entry (full capture, update
\* or refresh) touches only rows of that entry's key in that entry's table:
\* the rows of every other symbol or nation, and every row of the other
\* table, are after the step what they were before it.
C30_OnlyOwnKey ==
    [][ (pc \in {"pre", "fetch", "merge"} /\ conn.open /\ conn'.open) =>
          RowsBeside(conn', phase, entry.name)
            = RowsBeside(conn, phase, entry.name) ]_vars

C30_Witness ==
    /\ pc = "close"
    /\ \E w \in written : w.table = "stocks" /\ w.row.date = <<2023, 1, 1>>
    /\ \E w \in written : w.table = "national_debt" /\ w.row.date = <<2023, 1, 1>>
    /\ \E r \in DOMAIN conn.stocks : r.symbol = "MSFT"
    /\ \E r \in DOMAIN conn.national_debt : r.nation = "DGS10"

\* the days of the returned range r, both ends included
DaysIn(r) == {x \in 1..(GapDays + 1) : strptime(r[1]) <= x /\ x <= strptime(r[2])}

\* C26: the ranges gap detection returns for a key tile the missing days:
\* every day strictly between the earliest and the latest stored date is a
\* stored date or lies in exactly one returned range, no returned range holds
\* a stored date, every range has start <= end, and the ranges are pairwise
\* disjoint and in ascending order.
C26_RangesTileMissingDays ==
    missing_ranges.table # "" =>
        LET table == missing_ranges.table
            D == {strptime(x) : x \in DatesOf(db[table], table, missing_ranges.key)}
            R == missing_ranges.ranges
            I == 1..Len(R)
        IN  /\ \A x \in 1..GapDays :
                  (\E a, b \in D : a < x /\ x < b) =>
                      \/ x \in D
                      \/ Cardinality({i \in I : x \in DaysIn(R[i])}) = 1
            /\ \A i \in I : DaysIn(R[i]) \cap D = {}
            /\ \A i \in I : strptime(R[i][1]) <= strptime(R[i][2])
            /\ \A i, j \in I : i < j => strptime(R[i][2]) < strptime(R[j][1])

C26_Witness ==
    /\ missing_ranges.table = "national_debt"
    /\ missing_ranges.key = "US"
    /\ DatesOf(db.national_debt, "national_debt", "US")
          = {<<2022, 12, 31>>, <<2023, 1, 2>>, <<2023, 1, 4>>}
    /\ Len(missing_ranges.ranges) = 2

\* the latest date of the key of call c in the tables X, None without rows
LatestOf(X, c) == SelectMaxDate(X[c.table], c.table, c.name)

\* date string a is not earlier than date string b
NotEarlier(a, b) == a # None /\ ~TextLess(a, b)

HoldsAdded(t) ==
    \E i \in Matching(t.stocks, argv.stock) :
        /\ t.stocks[i].start_date = argv.start_date
        /\ t.stocks[i].end_date = strftime(Today)

\* C28: add writes the changed tracked-symbol file before the capture
\* starts: from the first step of the capture on, and when the capture has
\* failed and the command has left with exit code 1, the file holds the new
\* or updated entry and is the configuration the capture read; it is never
\* put back.
C28_ConfigWrittenBeforeCapture ==
    AddWrote =>
        /\ HoldsAdded(toml)
        /\ toml = config
        /\ (pc = "exit" /\ exit_code = "1") =>
              /\ Len(calls) >= 1
              /\ ~calls[Len(calls)].ok
              /\ HoldsAdded(toml)

C28_Witness ==
    /\ AddWrote
    /\ pc = "exit"
    /\ exit_code = "1"
    /\ ~HoldsAdded(pre_toml)
    /\ HoldsAdded(toml)
    /\ Len(toml.stocks) = Len(pre_toml.stocks) + 1

\* the entries of the file t in the order of the two loops, each with its
\* table
EntriesOf(t) ==
    [i \in 1..Len(t.stocks) |-> [table |-> "stocks", e |-> t.stocks[i]]]
      \o [i \in 1..Len(t.national_debt) |->
            [table |-> "national_debt", e |-> t.national_debt[i]]]

\* C29: the capture that add starts goes over every stocks entry and every
\* national_debt entry of the file as add wrote it, not over the added
\* symbol alone: the j-th provider call is for the j-th entry, asks from
\* that entry's own start_date, and when the capture reaches its end there
\* has been one call for each entry.
C29_AddCapturesEveryEntry ==
    AddWrote =>
      LET E == EntriesOf(toml)
      IN  /\ Len(calls) <= Len(E)
          /\ \A j \in 1..Len(calls) :
                /\ calls[j].table = E[j].table
                /\ calls[j].name = E[j].e.name
                /\ calls[j].start = E[j].e.start_date
                /\ calls[j].symbol = Ticker(E[j].table, E[j].e.name)
          /\ (pc = "close" \/ (pc = "exit" /\ exit_code = "0")) =>
                Len(calls) = Len(E)

C29_Witness ==
    /\ AddWrote
    /\ pc = "close"
    /\ Upper(argv.stock) = "MSFT"
    /\ Len(calls) = 3
    /\ calls[1].name \in {"AAPL", "aapl"}
    /\ calls[1].start = <<2023, 1, 1>>
    /\ calls[2].name = "MSFT"
    /\ calls[2].start = <<2023, 1, 2>>
    /\ calls[3].table = "national_debt"
====
